---- MODULE Spec2Model ----
(***************************************************************************)
(* Model of the Stack controller of @atombrenner/cfn-stack (src/src/index.ts):*)
(* createOrUpdate, delete and the convergence loop waitFor, run by one      *)
(* caller against the CloudFormation gateway, which is the environment.     *)
(***************************************************************************)
EXTENDS Integers, Sequences, FiniteSets, TLC

(* ------------------------------ bounds -------------------------------- *)
\* number of events the gateway emits while one waitFor invocation is followed
NumEvents == 2
\* number of events the gateway emits while whole calls are followed
CallEvents == 1
\* the dates read from the clock and the event timestamps range over 0..MaxTime
MaxTime == 1

(* --------------------------- vocabulary -------------------------------- *)
\* a status string is the sequence of its words, joined by "_" in the source
UPDATE_IN_PROGRESS == <<"UPDATE", "IN", "PROGRESS">>
UPDATE_COMPLETE == <<"UPDATE", "COMPLETE">>
CREATE_COMPLETE == <<"CREATE", "COMPLETE">>
DELETE_COMPLETE == <<"DELETE", "COMPLETE">>
UPDATE_ROLLBACK_COMPLETE == <<"UPDATE", "ROLLBACK", "COMPLETE">>
EmptyStatus == <<>>

StackType == "AWS::CloudFormation::Stack"
RoleType == "AWS::IAM::Role"

\* mutant: UPDATE_COMPLETE is missing from the alternatives
FinishedAlternatives_NoUpdate ==
    { <<"CREATE", "COMPLETE">>, <<"DELETE", "COMPLETE">>,
      <<"ROLLBACK", "COMPLETE">>, <<"ROLLBACK", "FAILED">>,
      <<"CREATE", "FAILED">>, <<"DELETE", "FAILED">> }

\* the alternatives of the regular expression `finished`
FinishedAlternatives ==
    { <<"CREATE", "COMPLETE">>, <<"UPDATE", "COMPLETE">>, <<"DELETE", "COMPLETE">>,
      <<"ROLLBACK", "COMPLETE">>, <<"ROLLBACK", "FAILED">>,
      <<"CREATE", "FAILED">>, <<"DELETE", "FAILED">> }

\* mutant: the expression is anchored at both ends
IsSuffix_Whole(suf, s) == suf = s

\* s ends with suf
IsSuffix(suf, s) ==
    /\ Len(suf) <= Len(s)
    /\ \A i \in 1..Len(suf) : s[Len(s) - Len(suf) + i] = suf[i]

\* status.match(finished): the expression is anchored at the end only
MatchFinished(s) == \E alt \in FinishedAlternatives : IsSuffix(alt, s)

\* the kinds of event the gateway reports: resource type and resource status
EventKinds ==
    { <<StackType, UPDATE_IN_PROGRESS>>, <<StackType, UPDATE_COMPLETE>>,
      <<StackType, UPDATE_ROLLBACK_COMPLETE>>, <<RoleType, UPDATE_COMPLETE>> }

StackName == "cfn-stack-test"
Template == "template"
Undefined == "undefined"
Null == "null"

\* the params argument of createOrUpdate, as Object.entries lists it
ParamInputs == { << <<"Env", "test1">> >>, << <<"Env", Undefined>> >> }

(* ------------------------------ errors --------------------------------- *)
NoError == [Code |-> "", message |-> <<>>]

\* errors the gateway rejects a request with: a code and the message's phrases
GatewayErrors ==
    { [Code |-> "ValidationError", message |-> <<"Stack", "does not exist">>],
      [Code |-> "ValidationError", message |-> <<"No updates are to be performed">>],
      [Code |-> "ValidationError", message |-> <<"Template format error">>],
      [Code |-> "AccessDenied", message |-> <<"Stack", "does not exist">>] }

includes(message, phrase) == \E i \in 1..Len(message) : message[i] = phrase

\* mutant: the classification code is not compared
stackDoesNotExist_MessageOnly(err) == includes(err.message, "does not exist")

stackDoesNotExist(err) ==
    err.Code = "ValidationError" /\ includes(err.message, "does not exist")

\* mutant: the no-changes rejection is not recognised
stackIsUpToDate_Never(err) == FALSE

stackIsUpToDate(err) ==
    err.Code = "ValidationError" /\ includes(err.message, "No updates are to be performed")

\* Error(`Unexpected Stack Status ${status}`): a plain Error has no Code
UnexpectedStatusError(s) ==
    [Code |-> Undefined, message |-> <<"Unexpected Stack Status">> \o s]

\* Error(`No StackId for stack "${StackName} found`)
NoStackIdError ==
    [Code |-> Undefined, message |-> <<"No StackId for stack", StackName>>]

(* ------------------------------- state --------------------------------- *)
VARIABLES
    pc,         \* where the caller's single thread of control stands
    gwEvents,   \* gateway: the stack's event list, newest first
    stackInput, \* createOrUpdate: the change request built from the arguments
    now,        \* createOrUpdate / delete: the Date taken before submitting
    inTry,      \* waitFor was called inside the try block of createOrUpdate
    success,    \* waitFor: the expected status
    start,      \* waitFor: the start Date
    shown,      \* waitFor: the set of EventIds already shown
    status,     \* waitFor: the tracked status
    out,        \* the console: one entry per console.log call of the current call
    result,     \* how the last call ended
    calls,      \* history: the gateway operations and sleeps of the current call
    requests,   \* history: the change requests submitted in the current call
    lastErr,    \* history: the gateway error raised last in the current call
    batches,    \* history: the events printed, poll by poll, by the current waitFor
    lastResp,   \* history: the StackEvents of the current waitFor's last poll
    found,      \* history: how many stacks the current waitFor's lookup returned
    earlier,    \* history: the EventIds printed by earlier waitFor invocations
    gwStack,    \* gateway: the stack, when the gateway's own behaviour is followed
    step,       \* caller: the number of calls made, when a fixed script is followed
    arg,        \* the argument or gateway answer a single function is applied to
    outputs     \* getOutputs: the mapping returned

vars == <<pc, gwEvents, stackInput, now, inTry, success, start, shown, status,
          out, result, calls, requests, lastErr, batches, lastResp,
          found, earlier, gwStack, step, arg, outputs>>

\* what the controller's steps and the gateway's events leave alone
frame == <<gwStack, step, arg, outputs>>

\* no lookup of the stack has been answered
NoLookup == -1
NoStack == [exists |-> FALSE, op |-> "none", Parameters |-> <<>>]
NoOutputs == <<>>

NoEvent == [EventId |-> 0, Timestamp |-> 0, ResourceType |-> "", ResourceStatus |-> <<>>]
NoInput == [StackName |-> "", Capabilities |-> <<>>, TemplateBody |-> "", Parameters |-> <<>>]
NoResult == [state |-> "none", err |-> NoError]

\* the gateway lists events newest first
NewestFirst(evs) ==
    \A i \in 1..Len(evs) : \A j \in 1..Len(evs) :
        i < j => evs[i].Timestamp >= evs[j].Timestamp

InsertAt(evs, p, e) == SubSeq(evs, 1, p - 1) \o <<e>> \o SubSeq(evs, p, Len(evs))

Reverse(s) == [i \in 1..Len(s) |-> s[Len(s) + 1 - i]]

RECURSIVE Flatten(_)
Flatten(ss) == IF ss = <<>> THEN <<>> ELSE Head(ss) \o Flatten(Tail(ss))

\* the EventIds of the events in the batches bs
PrintedIds(bs) == { Flatten(bs)[i].EventId : i \in 1..Len(Flatten(bs)) }

(* ---------------------------- console ---------------------------------- *)
BannerLine(date, msg) == [kind |-> "banner", time |-> date, text |-> msg, event |-> NoEvent]
EventLine(e) == [kind |-> "event", time |-> e.Timestamp, text |-> "", event |-> e]
SeparatorLine == [kind |-> "separator", time |-> 0, text |-> "", event |-> NoEvent]

\* logStackAction(date, msg)
logStackAction(o, date, msg) == Append(o, BannerLine(date, msg))

(* -------------------------- createOrUpdate ----------------------------- *)
\* mutant: a null value is not taken for a missing one
BuildParameters_UndefinedOnly(params) ==
    [i \in 1..Len(params) |->
        [ParameterKey |-> params[i][1],
         ParameterValue |-> params[i][2],
         UsePreviousValue |-> (params[i][2] = Undefined)]]

\* Object.entries(params).map(...)
BuildParameters(params) ==
    [i \in 1..Len(params) |->
        [ParameterKey |-> params[i][1],
         ParameterValue |-> params[i][2],
         UsePreviousValue |-> (params[i][2] = Undefined \/ params[i][2] = Null)]]

BuildStackInput(template, params) ==
    [StackName |-> StackName,
     Capabilities |-> <<"CAPABILITY_IAM", "CAPABILITY_NAMED_IAM">>,
     TemplateBody |-> template,
     Parameters |-> BuildParameters(params)]

\* a submitted change request and the gateway's answer (NoError: accepted)
Request(op, input, onFailure, err) ==
    [op |-> op, input |-> input, OnFailure |-> onFailure, err |-> err]

Init ==
    /\ pc = "idle"
    /\ gwEvents = <<>>
    /\ stackInput = NoInput
    /\ now = 0
    /\ inTry = FALSE
    /\ success = EmptyStatus
    /\ start = 0
    /\ shown = {}
    /\ status = EmptyStatus
    /\ out = <<>>
    /\ result = NoResult
    /\ calls = {}
    /\ requests = <<>>
    /\ lastErr = NoError
    /\ batches = <<>>
    /\ lastResp = <<>>
    /\ found = NoLookup
    /\ earlier = {}
    /\ gwStack = NoStack
    /\ step = 0
    /\ arg = <<>>
    /\ outputs = NoOutputs

\* the call ends: return (state "ok") or rejection with err (state "failed")
Finish(st, err) ==
    /\ pc' = "idle"
    /\ result' = [state |-> st, err |-> err]

\* mutant: the shown set outlives the invocation
NewShown_Shared == shown

\* const shown = new Set<string>()
NewShown == {}

\* await this.waitFor(expected, date): the locals of a fresh invocation
EnterWaitFor(expected, date, tried) ==
    /\ pc' = "getStackId"
    /\ success' = expected
    /\ start' = date
    /\ inTry' = tried
    /\ shown' = NewShown
    /\ status' = EmptyStatus
    /\ batches' = <<>>
    /\ lastResp' = <<>>
    /\ found' = NoLookup
    /\ earlier' = earlier \cup PrintedIds(batches)

waitForLocals == <<success, start, inTry, shown, status, batches, lastResp>>

\* no waitFor invocation is running: its locals do not exist
NoWaitFor ==
    /\ success' = EmptyStatus
    /\ start' = 0
    /\ inTry' = FALSE
    /\ shown' = {}
    /\ status' = EmptyStatus
    /\ batches' = <<>>
    /\ lastResp' = <<>>

\* mutant: the catch block takes a later date instead of the one taken before the update
CatchStart_Fresh == now + 1

\* the start date createOrUpdate's catch block passes to waitFor
CatchStart == now

\* the catch block of createOrUpdate, entered with err; o is the console so far
Catch(err, o) ==
    IF stackDoesNotExist(err)
    THEN /\ pc' = "createStack"
         /\ out' = o
         /\ UNCHANGED <<result, waitForLocals>>
    ELSE IF stackIsUpToDate(err)
    THEN /\ out' = logStackAction(o, now, "No updates needed for stack")
         /\ Finish("ok", NoError)
         /\ UNCHANGED waitForLocals
    ELSE /\ out' = o
         /\ Finish("failed", err)
         /\ UNCHANGED waitForLocals

\* an error leaves waitFor: into the catch block when waitFor ran in the try block
Throw(err, o) ==
    IF inTry
    THEN Catch(err, o)
    ELSE /\ out' = o
         /\ Finish("failed", err)
         /\ UNCHANGED waitForLocals

\* createOrUpdate(template, params), up to the await of updateStack;
\* date is what new Date() reads
CreateOrUpdate(template, params, date) ==
    /\ pc = "idle"
    /\ pc' = "updateStack"
    /\ stackInput' = BuildStackInput(template, params)
    /\ now' = date
    /\ out' = <<>>
    /\ result' = NoResult
    /\ calls' = {}
    /\ requests' = <<>>
    /\ lastErr' = NoError
    /\ NoWaitFor
    /\ found' = NoLookup
    /\ earlier' = earlier \cup PrintedIds(batches)
    /\ UNCHANGED gwEvents

\* updateStack resolves
UpdateStackAccepted ==
    /\ pc = "updateStack"
    /\ calls' = calls \cup {"updateStack"}
    /\ requests' = Append(requests, Request("updateStack", stackInput, "", NoError))
    /\ out' = logStackAction(out, now, "Updating stack")
    /\ EnterWaitFor(UPDATE_COMPLETE, now, TRUE)
    /\ UNCHANGED <<gwEvents, stackInput, now, result, lastErr>>

\* updateStack rejects with err
UpdateStackRejected(err) ==
    /\ pc = "updateStack"
    /\ calls' = calls \cup {"updateStack"}
    /\ requests' = Append(requests, Request("updateStack", stackInput, "", err))
    /\ lastErr' = err
    /\ Catch(err, out)
    /\ UNCHANGED <<gwEvents, stackInput, now, found, earlier>>

\* the create request of the catch block
CreateRequestInput == stackInput

\* createStack({ OnFailure: 'DELETE', ...stackInput }) resolves
CreateStackAccepted ==
    /\ pc = "createStack"
    /\ calls' = calls \cup {"createStack"}
    /\ requests' = Append(requests, Request("createStack", CreateRequestInput, "DELETE", NoError))
    /\ out' = logStackAction(out, now, "Creating new stack")
    /\ EnterWaitFor(CREATE_COMPLETE, CatchStart, FALSE)
    /\ UNCHANGED <<gwEvents, stackInput, now, result, lastErr>>

\* createStack rejects with err: thrown from the catch block
CreateStackRejected(err) ==
    /\ pc = "createStack"
    /\ calls' = calls \cup {"createStack"}
    /\ requests' = Append(requests, Request("createStack", CreateRequestInput, "DELETE", err))
    /\ lastErr' = err
    /\ Finish("failed", err)
    /\ UNCHANGED <<gwEvents, stackInput, now, out, waitForLocals, found, earlier>>

(* ------------------------------ delete --------------------------------- *)
\* delete(), up to the await of deleteStack; date is what new Date() reads
Delete(date) ==
    /\ pc = "idle"
    /\ pc' = "deleteStack"
    /\ now' = date
    /\ stackInput' = NoInput
    /\ out' = <<>>
    /\ result' = NoResult
    /\ calls' = {}
    /\ requests' = <<>>
    /\ lastErr' = NoError
    /\ NoWaitFor
    /\ found' = NoLookup
    /\ earlier' = earlier \cup PrintedIds(batches)
    /\ UNCHANGED gwEvents

\* deleteStack resolves
DeleteStackAccepted ==
    /\ pc = "deleteStack"
    /\ calls' = calls \cup {"deleteStack"}
    /\ requests' = Append(requests, Request("deleteStack", NoInput, "", NoError))
    /\ out' = logStackAction(out, now, "Deleting stack")
    /\ EnterWaitFor(DELETE_COMPLETE, now, FALSE)
    /\ UNCHANGED <<gwEvents, stackInput, now, result, lastErr>>

\* mutant: the rejection of deleteStack is swallowed and the loop entered
DeleteStackRejected_Swallow(err) ==
    /\ pc = "deleteStack"
    /\ calls' = calls \cup {"deleteStack"}
    /\ requests' = Append(requests, Request("deleteStack", NoInput, "", err))
    /\ lastErr' = err
    /\ out' = logStackAction(out, now, "Deleting stack")
    /\ EnterWaitFor(DELETE_COMPLETE, now, FALSE)
    /\ UNCHANGED <<gwEvents, stackInput, now, result>>

\* deleteStack rejects with err
DeleteStackRejected(err) ==
    /\ pc = "deleteStack"
    /\ calls' = calls \cup {"deleteStack"}
    /\ requests' = Append(requests, Request("deleteStack", NoInput, "", err))
    /\ lastErr' = err
    /\ Finish("failed", err)
    /\ UNCHANGED <<gwEvents, stackInput, now, out, waitForLocals, found, earlier>>

(* ------------------------------ waitFor -------------------------------- *)
\* mutant: only an empty answer counts as no stack id
StackIdMissing_OnlyNone(n) == n = 0

\* !response.Stacks || response.Stacks.length !== 1, for an answer of n stacks
StackIdMissing(n) == n # 1

\* getStackId(): describeStacks resolves with n stacks
GetStackId(n) ==
    /\ pc = "getStackId"
    /\ calls' = calls \cup {"describeStacks"}
    /\ IF StackIdMissing(n)
       THEN Throw(NoStackIdError, out)
       ELSE /\ pc' = "loop"
            /\ UNCHANGED <<out, result, waitForLocals>>
    /\ found' = n
    /\ UNCHANGED <<gwEvents, stackInput, now, requests, lastErr, earlier>>

\* getStackId(): describeStacks rejects with err
GetStackIdRejected(err) ==
    /\ pc = "getStackId"
    /\ calls' = calls \cup {"describeStacks"}
    /\ lastErr' = err
    /\ Throw(err, out)
    /\ UNCHANGED <<gwEvents, stackInput, now, requests, found, earlier>>

\* mutant: the shown set is not consulted
PassesFilter_NoDedup(e, since, sh) == e.Timestamp >= since

\* mutant: the start date is not consulted
PassesFilter_NoSince(e, since, sh) == e.EventId \notin sh

\* the filter predicate: e.Timestamp >= start && !shown.has(e.EventId)
PassesFilter(e, since, sh) == e.Timestamp >= since /\ e.EventId \notin sh

\* mutant: the filtered events are not reversed
FilterReverse_NoReverse(evs, since, sh) ==
    SelectSeq(evs, LAMBDA e : e.Timestamp >= since /\ e.EventId \notin sh)

\* events.filter(...).reverse()
FilterReverse(evs, since, sh) ==
    Reverse(SelectSeq(evs, LAMBDA e : PassesFilter(e, since, sh)))

\* mutant: every event updates the tracked status
IsStackEvent_Any(e) == TRUE

\* e.ResourceType === 'AWS::CloudFormation::Stack'
IsStackEvent(e) == e.ResourceType = StackType

\* the status after the forEach over batch, entered with status st
\* mutant: the forEach stops caring once the status matches finished
RECURSIVE ForEachStatus_StopAtFinished(_, _)
ForEachStatus_StopAtFinished(batch, st) ==
    IF batch = <<>> \/ MatchFinished(st) THEN st
    ELSE ForEachStatus_StopAtFinished(Tail(batch),
                       IF IsStackEvent(Head(batch)) THEN Head(batch).ResourceStatus ELSE st)

RECURSIVE ForEachStatus(_, _)
ForEachStatus(batch, st) ==
    IF batch = <<>> THEN st
    ELSE ForEachStatus(Tail(batch),
                       IF IsStackEvent(Head(batch)) THEN Head(batch).ResourceStatus ELSE st)

\* the console after the forEach over batch: logEvent(e) for each
ForEachLog(o, batch) == o \o [i \in 1..Len(batch) |-> EventLine(batch[i])]

\* the shown set after the forEach over batch
ForEachShown(sh, batch) == sh \cup { batch[i].EventId : i \in 1..Len(batch) }

\* the while condition
LoopContinues(st) == ~MatchFinished(st)

\* one iteration of the loop: sleep, describeStackEvents resolves with resp, forEach
Poll(resp) ==
    /\ pc = "loop"
    /\ LoopContinues(status)
    /\ calls' = calls \cup {"sleep", "describeStackEvents"}
    /\ LET batch == FilterReverse(resp, start, shown)
       IN  /\ out' = ForEachLog(out, batch)
           /\ shown' = ForEachShown(shown, batch)
           /\ status' = ForEachStatus(batch, status)
           /\ batches' = IF batch = <<>> THEN batches ELSE Append(batches, batch)
    /\ lastResp' = resp
    /\ UNCHANGED <<pc, gwEvents, stackInput, now, inTry, success, start,
                   result, requests, lastErr, found, earlier>>

\* one iteration of the loop: sleep, describeStackEvents rejects with err
PollRejected(err) ==
    /\ pc = "loop"
    /\ LoopContinues(status)
    /\ calls' = calls \cup {"sleep", "describeStackEvents"}
    /\ lastErr' = err
    /\ Throw(err, out)
    /\ UNCHANGED <<gwEvents, stackInput, now, requests, found, earlier>>

\* mutant: the final comparison is missing
StatusMismatch_Never(st, expected) == FALSE

\* status !== success
StatusMismatch(st, expected) == st # expected

\* the loop has ended: the closing separator and the comparison with success
ExitLoop ==
    /\ pc = "loop"
    /\ ~LoopContinues(status)
    /\ IF StatusMismatch(status, success)
       THEN Throw(UnexpectedStatusError(status), Append(out, SeparatorLine))
       ELSE /\ out' = Append(out, SeparatorLine)
            /\ Finish("ok", NoError)
            /\ UNCHANGED waitForLocals
    /\ UNCHANGED <<gwEvents, stackInput, now, calls, requests, lastErr, found, earlier>>

(* ---------------------------- environment ------------------------------ *)
\* the gateway records a new event; its list stays newest first
Emit(max, t, k, p) ==
    /\ Len(gwEvents) < max
    /\ p \in 1..(Len(gwEvents) + 1)
    /\ LET e == [EventId |-> Len(gwEvents) + 1, Timestamp |-> t,
                 ResourceType |-> k[1], ResourceStatus |-> k[2]]
       IN  /\ NewestFirst(InsertAt(gwEvents, p, e))
           /\ gwEvents' = InsertAt(gwEvents, p, e)
    /\ UNCHANGED <<pc, stackInput, now, inTry, success, start, shown, status,
                   out, result, calls, requests, lastErr, batches, lastResp,
                   found, earlier>>

Next ==
    \/ \E params \in ParamInputs, date \in 0..MaxTime :
          CreateOrUpdate(Template, params, date) /\ UNCHANGED frame
    \/ UpdateStackAccepted /\ UNCHANGED frame
    \/ \E err \in GatewayErrors :
          UpdateStackRejected(err) /\ UNCHANGED frame
    \/ CreateStackAccepted /\ UNCHANGED frame
    \/ \E err \in GatewayErrors :
          CreateStackRejected(err) /\ UNCHANGED frame
    \/ \E date \in 0..MaxTime :
          Delete(date) /\ UNCHANGED frame
    \/ DeleteStackAccepted /\ UNCHANGED frame
    \/ \E err \in GatewayErrors :
          DeleteStackRejected(err) /\ UNCHANGED frame
    \/ \E n \in 0..2 :
          GetStackId(n) /\ UNCHANGED frame
    \/ \E err \in GatewayErrors :
          GetStackIdRejected(err) /\ UNCHANGED frame
    \/ Poll(gwEvents) /\ UNCHANGED frame
    \/ \E err \in GatewayErrors :
          PollRejected(err) /\ UNCHANGED frame
    \/ ExitLoop /\ UNCHANGED frame
    \/ \E t \in 0..MaxTime, k \in EventKinds, p \in 1..(CallEvents + 1) :
          Emit(CallEvents, t, k, p) /\ UNCHANGED frame

\* the caller's calls of createOrUpdate and delete, one after the other
Spec == Init /\ [][Next]_vars

(* ----------------------- one waitFor invocation ------------------------ *)
\* the expected statuses the callers of waitFor pass
ExpectedStatuses == { UPDATE_COMPLETE, CREATE_COMPLETE, DELETE_COMPLETE }

\* waitFor(expected, date) has just been called by the caller itself
InitWaitFor ==
    /\ pc = "getStackId"
    /\ success \in ExpectedStatuses
    /\ start \in 0..MaxTime
    /\ gwEvents = <<>>
    /\ stackInput = NoInput
    /\ now = 0
    /\ inTry = FALSE
    /\ shown = {}
    /\ status = EmptyStatus
    /\ out = <<>>
    /\ result = NoResult
    /\ calls = {}
    /\ requests = <<>>
    /\ lastErr = NoError
    /\ batches = <<>>
    /\ lastResp = <<>>
    /\ found = NoLookup
    /\ earlier = {}
    /\ gwStack = NoStack
    /\ step = 0
    /\ arg = <<>>
    /\ outputs = NoOutputs

NextWaitFor ==
    \/ \E n \in 0..2 :
          GetStackId(n) /\ UNCHANGED frame
    \/ \E err \in GatewayErrors :
          GetStackIdRejected(err) /\ UNCHANGED frame
    \/ Poll(gwEvents) /\ UNCHANGED frame
    \/ \E err \in GatewayErrors :
          PollRejected(err) /\ UNCHANGED frame
    \/ ExitLoop /\ UNCHANGED frame
    \/ \E t \in 0..MaxTime, k \in EventKinds, p \in 1..(NumEvents + 1) :
          Emit(NumEvents, t, k, p) /\ UNCHANGED frame

SpecWaitFor == InitWaitFor /\ [][NextWaitFor]_vars

\* the same with a gateway that answers every request
NextConverge ==
    \/ \E n \in 0..2 :
          GetStackId(n) /\ UNCHANGED frame
    \/ Poll(gwEvents) /\ UNCHANGED frame
    \/ ExitLoop /\ UNCHANGED frame
    \/ \E t \in 0..MaxTime, k \in EventKinds, p \in 1..(NumEvents + 1) :
          Emit(NumEvents, t, k, p) /\ UNCHANGED frame

\* the loop is never suspended for ever: a poll that is due takes place
SpecWaitForFair ==
    /\ InitWaitFor /\ [][NextConverge]_vars
    /\ WF_vars((\E n \in 0..2 : GetStackId(n)) /\ UNCHANGED frame)
    /\ WF_vars(Poll(gwEvents) /\ UNCHANGED frame)
    /\ WF_vars(ExitLoop /\ UNCHANGED frame)

(* ======================= properties of waitFor ========================= *)
\* the events the current waitFor invocation has printed, in printing order
Printed == Flatten(batches)

\* the same, each with the number of the batch (printing poll) it belongs to
RECURSIVE Tagged(_, _)
Tagged(bs, k) ==
    IF bs = <<>> THEN <<>>
    ELSE [i \in 1..Len(Head(bs)) |-> [event |-> Head(bs)[i], batch |-> k]]
         \o Tagged(Tail(bs), k + 1)

PrintedTagged == Tagged(batches, 1)

Occurrences(seq, e) == Cardinality({ i \in 1..Len(seq) : seq[i] = e })

\* the seven terminal values the specification lists
TerminalValues ==
    { <<"CREATE", "COMPLETE">>, <<"UPDATE", "COMPLETE">>, <<"DELETE", "COMPLETE">>,
      <<"ROLLBACK", "COMPLETE">>, <<"ROLLBACK", "FAILED">>,
      <<"CREATE", "FAILED">>, <<"DELETE", "FAILED">> }

\* C1: within one waitFor invocation no EventId is printed twice, however the
\* responses of successive polls overlap, and every event of a poll's response
\* with Timestamp >= start has been printed exactly once when the poll is over.
C1_EachEventPrintedOnce ==
    /\ \A i \in 1..Len(Printed) : \A j \in 1..Len(Printed) :
          i # j => Printed[i].EventId # Printed[j].EventId
    /\ \A k \in 1..Len(lastResp) :
          lastResp[k].Timestamp >= start => Occurrences(Printed, lastResp[k]) = 1
    /\ shown = { Printed[i].EventId : i \in 1..Len(Printed) }

\* C1 witness: a second poll has printed a new event while its response
\* returned again an event that an earlier poll had printed.
C1_Witness ==
    /\ pc = "loop"
    /\ Len(batches) = 2
    /\ \E k \in 1..Len(lastResp) : lastResp[k] = batches[1][1]

\* C3: the tracked status is empty or the status of a printed event of the stack
\* itself; while only events of child resources have been printed, whatever their
\* status, the tracked status stays empty and the loop has not been left through
\* its exit test.
C3_OnlyStackEventsSetStatus ==
    /\ status # EmptyStatus =>
          \E i \in 1..Len(Printed) :
              /\ Printed[i].ResourceType = StackType
              /\ Printed[i].ResourceStatus = status
    /\ (\A i \in 1..Len(Printed) : Printed[i].ResourceType # StackType) =>
          /\ status = EmptyStatus
          /\ \A n \in 1..Len(out) : out[n] # SeparatorLine
          /\ result.state # "ok"

\* C3 witness: a role's UPDATE_COMPLETE event has been printed and the loop goes on
\* with the empty status.
C3_Witness ==
    /\ pc = "loop"
    /\ status = EmptyStatus
    /\ \E i \in 1..Len(Printed) :
          /\ Printed[i].ResourceType = RoleType
          /\ Printed[i].ResourceStatus \in TerminalValues
          /\ \E n \in 1..Len(out) : out[n] = EventLine(Printed[i])

\* C7: no printed event is older than start, an event of the response stamped
\* exactly start is printed, and the tracked status comes from an event that is
\* not older than start.
C7_OnlyEventsSinceStart ==
    /\ \A i \in 1..Len(Printed) : Printed[i].Timestamp >= start
    /\ \A n \in 1..Len(out) : out[n].kind = "event" => out[n].event.Timestamp >= start
    /\ \A k \in 1..Len(lastResp) :
          lastResp[k].Timestamp = start => Occurrences(Printed, lastResp[k]) = 1
    /\ status # EmptyStatus =>
          \E k \in 1..Len(lastResp) :
              /\ lastResp[k].Timestamp >= start
              /\ lastResp[k].ResourceType = StackType
              /\ lastResp[k].ResourceStatus = status

\* C7 witness: a poll returned a stack event older than start, which was not
\* printed, and an event stamped exactly start, which was.
C7_Witness ==
    /\ pc = "loop"
    /\ \E k \in 1..Len(lastResp) :
          /\ lastResp[k].Timestamp < start
          /\ lastResp[k].ResourceType = StackType
          /\ lastResp[k].EventId \notin shown
    /\ \E k \in 1..Len(lastResp) :
          /\ lastResp[k].Timestamp = start
          /\ Occurrences(Printed, lastResp[k]) = 1

\* C8 as claimed: over the whole invocation no event is printed after an event
\* with a later timestamp.
C8_ChronologicalOverall ==
    \A i \in 1..Len(Printed) : \A j \in 1..Len(Printed) :
        i < j => Printed[i].Timestamp <= Printed[j].Timestamp

\* C8 amended: an event is printed after an event with a later timestamp only
\* when it was printed by a later poll; within the output of one poll timestamps
\* never decrease.
C8_ChronologicalWithinPoll ==
    \A i \in 1..Len(PrintedTagged) : \A j \in 1..Len(PrintedTagged) :
        (i < j /\ PrintedTagged[i].event.Timestamp > PrintedTagged[j].event.Timestamp)
            => PrintedTagged[i].batch < PrintedTagged[j].batch

\* C8 witness: a later poll has printed an event older than one printed before.
C8_Witness ==
    /\ Len(batches) = 2
    /\ batches[2][1].Timestamp < batches[1][1].Timestamp
    /\ \A k \in 1..Len(lastResp) : lastResp[k].Timestamp >= start

\* the events a poll step has printed
NewBatch == IF batches' = batches THEN <<>> ELSE batches'[Len(batches')]

\* C9 as claimed: the timestamps of the events printed by one poll strictly
\* increase.
C9_StrictlyOldestFirst ==
    \A b \in 1..Len(batches) : \A i \in 1..Len(batches[b]) : \A j \in 1..Len(batches[b]) :
        i < j => batches[b][i].Timestamp < batches[b][j].Timestamp

\* C9 amended: a poll prints exactly the events of its response that pass the
\* filter, in the reverse of the response's order; the response being newest
\* first, their timestamps never decrease (events with equal timestamps are
\* printed in the reverse of their order in the response).
C9_ReverseOfResponse ==
    [][ (pc = "loop" /\ pc' = "loop" /\ batches' # batches) =>
          /\ NewestFirst(lastResp')
          /\ LET kept == SelectSeq(lastResp',
                                   LAMBDA e : e.Timestamp >= start /\ e.EventId \notin shown)
             IN  /\ Len(NewBatch) = Len(kept)
                 /\ \A i \in 1..Len(kept) : NewBatch[i] = kept[Len(kept) + 1 - i]
          /\ \A i \in 1..Len(NewBatch) : \A j \in 1..Len(NewBatch) :
                i < j => NewBatch[i].Timestamp <= NewBatch[j].Timestamp
          /\ out' = out \o [i \in 1..Len(NewBatch) |-> EventLine(NewBatch[i])]
      ]_vars

\* C9 witness: one poll has printed two events with equal timestamps, the one
\* the response listed second first.
C9_Witness ==
    /\ Len(batches) = 1
    /\ Len(batches[1]) = 2
    /\ batches[1][1].Timestamp = batches[1][2].Timestamp
    /\ lastResp = <<batches[1][2], batches[1][1]>>

\* an event of the stack itself, not older than start
InWindowStackEvent(e) == e.ResourceType = StackType /\ e.Timestamp >= start

\* the gateway's list holds a terminal event of the stack itself, not older than start
TerminalEventListed ==
    \E k \in 1..Len(gwEvents) :
        InWindowStackEvent(gwEvents[k]) /\ gwEvents[k].ResourceStatus \in TerminalValues

\* the newest event of the stack itself, not older than start, in the gateway's
\* list is terminal
NewestStackEventTerminal ==
    \E k \in 1..Len(gwEvents) :
        /\ InWindowStackEvent(gwEvents[k])
        /\ gwEvents[k].ResourceStatus \in TerminalValues
        /\ \A j \in 1..(k - 1) : ~InWindowStackEvent(gwEvents[j])

\* waitFor is over: it has returned or thrown
WaitForOver == pc = "idle"

\* C10 as claimed: once the gateway's list holds for good a terminal event of the
\* stack itself that is not older than start, fairly scheduled polls end the loop.
C10_TerminalEventEndsLoop == (<>[]TerminalEventListed) => <>WaitForOver

\* C10 amended: once the newest event of the stack itself (not older than start)
\* in the gateway's list is for good a terminal one, fairly scheduled polls end
\* the loop; and the loop is left through its exit test only after a printed
\* event of the stack itself whose status ends in a terminal value.
C10_NewestTerminalEventEndsLoop ==
    /\ (<>[]NewestStackEventTerminal) => <>WaitForOver
    /\ [](  (\E n \in 1..Len(out) : out[n] = SeparatorLine) =>
            \E i \in 1..Len(Printed) :
                /\ InWindowStackEvent(Printed[i])
                /\ Printed[i].ResourceStatus = status
                /\ \E v \in TerminalValues : IsSuffix(v, status) )

\* C10 witness: the loop has polled, printed the stack's UPDATE_COMPLETE event,
\* which is the newest of the list, and waitFor has returned.
C10_Witness ==
    /\ WaitForOver
    /\ result.state = "ok"
    /\ "sleep" \in calls
    /\ NewestStackEventTerminal
    /\ status = UPDATE_COMPLETE

(* ==================== properties of whole calls ======================= *)
\* the two rejections createOrUpdate handles itself, as the specification names them
IsDoesNotExistError(err) ==
    err.Code = "ValidationError" /\ \E i \in 1..Len(err.message) : err.message[i] = "does not exist"

IsNoChangesError(err) ==
    err.Code = "ValidationError"
    /\ \E i \in 1..Len(err.message) : err.message[i] = "No updates are to be performed"

\* the current call is a createOrUpdate whose update submission has been answered
UpdateAnswered == Len(requests) >= 1 /\ requests[1].op = "updateStack"

\* the loop of the current call has been left through its exit test
LoopExited == \E n \in 1..Len(out) : out[n] = SeparatorLine

CallOver == pc = "idle" /\ result.state # "none"

\* C2: a call whose loop ended returns normally only if the tracked status is the
\* expected one; with any other final status the call is rejected with the error
\* that carries the tracked status.
C2_UnexpectedStatusFails ==
    LoopExited =>
        /\ CallOver
        /\ result.state = "ok" => status = success
        /\ status # success =>
              /\ result.state = "failed"
              /\ result.err = UnexpectedStatusError(status)

\* C2 witness: an accepted update converged to UPDATE_ROLLBACK_COMPLETE and
\* createOrUpdate was rejected with the error carrying that status.
C2_Witness ==
    /\ CallOver
    /\ LoopExited
    /\ UpdateAnswered
    /\ requests[1].err = NoError
    /\ success = UPDATE_COMPLETE
    /\ status = UPDATE_ROLLBACK_COMPLETE
    /\ result.err = UnexpectedStatusError(UPDATE_ROLLBACK_COMPLETE)

\* C4: after the update submission was rejected as does-not-exist, the next
\* request is a create of the same input with OnFailure DELETE, and once it is
\* accepted the loop runs expecting CREATE_COMPLETE from the date taken before the
\* update attempt.
C4_CreateAfterDoesNotExist ==
    (UpdateAnswered /\ IsDoesNotExistError(requests[1].err)) =>
        \/ pc = "createStack" /\ Len(requests) = 1
        \/ /\ Len(requests) = 2
           /\ requests[2].op = "createStack"
           /\ requests[2].input = requests[1].input
           /\ requests[2].input = stackInput
           /\ requests[2].OnFailure = "DELETE"
           /\ requests[2].err # NoError => CallOver /\ result.err = requests[2].err
           /\ requests[2].err = NoError =>
                 /\ "describeStacks" \in calls \/ pc = "getStackId"
                 /\ success = CREATE_COMPLETE
                 /\ start = now
                 /\ out[1] = BannerLine(now, "Creating new stack")

\* C4 witness: the update was rejected as does-not-exist, the create accepted, and
\* the loop is polling for CREATE_COMPLETE with a start date other than 0.
C4_Witness ==
    /\ UpdateAnswered
    /\ IsDoesNotExistError(requests[1].err)
    /\ Len(requests) = 2
    /\ requests[2].err = NoError
    /\ pc = "loop"
    /\ lastResp # <<>>
    /\ start = MaxTime

\* C5: after the update submission was rejected as no-changes, the call has
\* returned normally and has done nothing but submit the update and print the
\* banner: no create, no stack lookup, no event fetch, no sleep, no event line.
C5_NoChangesReturnsAtOnce ==
    (UpdateAnswered /\ IsNoChangesError(requests[1].err)) =>
        /\ CallOver
        /\ result = [state |-> "ok", err |-> NoError]
        /\ calls = {"updateStack"}
        /\ Len(requests) = 1
        /\ out = <<BannerLine(now, "No updates needed for stack")>>
        /\ batches = <<>>

\* C5 witness: createOrUpdate has returned after a no-changes rejection.
C5_Witness ==
    /\ UpdateAnswered
    /\ IsNoChangesError(requests[1].err)
    /\ CallOver
    /\ result.state = "ok"

\* C6: a gateway error raised in createOrUpdate that is neither does-not-exist
\* nor no-changes ends the call with that very error; when it came from the update
\* submission, nothing else was requested and the loop was not entered.
C6_OtherErrorsPropagate ==
    (UpdateAnswered /\ lastErr # NoError
        /\ ~IsDoesNotExistError(lastErr) /\ ~IsNoChangesError(lastErr)) =>
        /\ CallOver
        /\ result = [state |-> "failed", err |-> lastErr]
        /\ requests[1].err = lastErr =>
              /\ calls = {"updateStack"}
              /\ Len(requests) = 1
              /\ out = <<>>

\* C6 witness: the update submission was rejected with code AccessDenied and a
\* message containing 'does not exist', and the call ended with that error.
C6_Witness ==
    /\ UpdateAnswered
    /\ requests[1].err = lastErr
    /\ lastErr.Code = "AccessDenied"
    /\ CallOver
    /\ result.err = lastErr

(* ------------------------------- C11 ------------------------------------- *)
\* the current call is a createOrUpdate that has returned normally
ReturnedNormally == CallOver /\ UpdateAnswered /\ result.state = "ok"

\* the update submission of the current call was accepted
UpdateAccepted == UpdateAnswered /\ requests[1].err = NoError

\* C11: a createOrUpdate that returns normally has either seen its loop end with
\* the expected status (UPDATE_COMPLETE after an accepted update, CREATE_COMPLETE
\* after a create) or had its update submission itself rejected as no changes;
\* every other course of the call fails.
C11_NoPartialSuccess ==
    ReturnedNormally =>
        \/ LoopExited /\ status = success
        \/ IsNoChangesError(requests[1].err)

(* ------------------------------- C12 ------------------------------------- *)
(* The calls of test/stack.ts, one after the other, against a gateway that    *)
(* starts with no stack and carries every accepted operation through: the     *)
(* stack's IN_PROGRESS event, then its COMPLETE event, each stamped by the     *)
(* gateway's clock. getOutputs, called in between, changes nothing and is      *)
(* left out. The caller's clock and the gateway's clock each run forward;      *)
(* nothing ties one to the other.                                              *)
CREATE_IN_PROGRESS == <<"CREATE", "IN", "PROGRESS">>
DELETE_IN_PROGRESS == <<"DELETE", "IN", "PROGRESS">>

DoesNotExistError == [Code |-> "ValidationError", message |-> <<"Stack", "does not exist">>]
NoUpdatesError == [Code |-> "ValidationError", message |-> <<"No updates are to be performed">>]

Script ==
    << [op |-> "createOrUpdate", params |-> << <<"Env", "test1">> >>],
       [op |-> "createOrUpdate", params |-> << <<"Env", "test2">> >>],
       [op |-> "createOrUpdate", params |-> << <<"Env", "test2">> >>],
       [op |-> "delete", params |-> <<>>] >>

\* the next call of the script; an awaited call that threw ends the script
ScriptCall ==
    /\ pc = "idle"
    /\ step < Len(Script)
    /\ step > 0 => result.state = "ok"
    /\ step' = step + 1
    /\ \E date \in now..MaxTime :
          IF Script[step + 1].op = "createOrUpdate"
          THEN CreateOrUpdate(Template, Script[step + 1].params, date)
          ELSE Delete(date)
    /\ UNCHANGED <<gwStack, arg, outputs>>

\* the gateway answers updateStack
GatewayUpdateDoesNotExist ==
    /\ ~gwStack.exists
    /\ UpdateStackRejected(DoesNotExistError)
    /\ UNCHANGED frame

GatewayUpdateNoChanges ==
    /\ gwStack.exists
    /\ gwStack.Parameters = stackInput.Parameters
    /\ UpdateStackRejected(NoUpdatesError)
    /\ UNCHANGED frame

GatewayUpdateAccepted ==
    /\ gwStack.exists
    /\ gwStack.op = "none"
    /\ gwStack.Parameters # stackInput.Parameters
    /\ UpdateStackAccepted
    /\ gwStack' = [exists |-> TRUE, op |-> "UPDATE", Parameters |-> stackInput.Parameters]
    /\ UNCHANGED <<step, arg, outputs>>

\* the gateway answers createStack
GatewayCreateAccepted ==
    /\ ~gwStack.exists
    /\ CreateStackAccepted
    /\ gwStack' = [exists |-> TRUE, op |-> "CREATE", Parameters |-> stackInput.Parameters]
    /\ UNCHANGED <<step, arg, outputs>>

\* the gateway answers deleteStack
GatewayDeleteAccepted ==
    /\ gwStack.exists
    /\ gwStack.op = "none"
    /\ DeleteStackAccepted
    /\ gwStack' = [gwStack EXCEPT !.op = "DELETE"]
    /\ UNCHANGED <<step, arg, outputs>>

\* the gateway answers describeStacks for the stack's name
GatewayDescribeStacks ==
    /\ gwStack.exists
    /\ GetStackId(1)
    /\ UNCHANGED frame

GatewayDescribeStacksDoesNotExist ==
    /\ ~gwStack.exists
    /\ GetStackIdRejected(DoesNotExistError)
    /\ UNCHANGED frame

\* the gateway carries the accepted operation one event further, stamped t
GatewayProgress(t) ==
    /\ gwStack.op # "none"
    /\ LET started == /\ gwEvents # <<>>
                      /\ gwEvents[1].ResourceStatus = <<gwStack.op, "IN", "PROGRESS">>
       IN  IF started
           THEN /\ Emit(Len(gwEvents) + 1, t, <<StackType, <<gwStack.op, "COMPLETE">>>>, 1)
                /\ gwStack' = [gwStack EXCEPT !.op = "none",
                                              !.exists = (gwStack.op # "DELETE")]
           ELSE /\ Emit(Len(gwEvents) + 1, t, <<StackType, <<gwStack.op, "IN", "PROGRESS">>>>, 1)
                /\ UNCHANGED gwStack
    /\ UNCHANGED <<step, arg, outputs>>

NextScript ==
    \/ ScriptCall
    \/ GatewayUpdateDoesNotExist
    \/ GatewayUpdateNoChanges
    \/ GatewayUpdateAccepted
    \/ GatewayCreateAccepted
    \/ GatewayDeleteAccepted
    \/ GatewayDescribeStacks
    \/ GatewayDescribeStacksDoesNotExist
    \/ \E t \in 0..MaxTime : GatewayProgress(t)
    \/ Poll(gwEvents) /\ UNCHANGED frame
    \/ ExitLoop /\ UNCHANGED frame

\* the script of test/stack.ts against a gateway that behaves
SpecScript == Init /\ [][NextScript]_vars

\* C12: run one after the other against a gateway that starts with no stack,
\* createOrUpdate(Env=test1), createOrUpdate(Env=test2), createOrUpdate(Env=test2)
\* and delete all return normally: no call fails, in particular none is ended by
\* a terminal stack event left over from the operation before.
C12_NoScriptCallFails == result.state # "failed"

(* ------------------------------- C13 ------------------------------------- *)
\* the current call is a delete whose submission has been answered
DeleteAnswered == Len(requests) >= 1 /\ requests[1].op = "deleteStack"

\* C13: delete reads T0, then submits the delete request with nothing before it
\* (no lookup, no poll, no output); a rejected submission ends the call with the
\* gateway's error and the loop is not entered; an accepted one is followed by
\* the stack id lookup and the loop, expecting DELETE_COMPLETE with since = T0.
C13_DeleteSubmitsThenWaits ==
    /\ pc = "deleteStack" => calls = {} /\ out = <<>> /\ requests = <<>>
    /\ DeleteAnswered =>
          /\ Len(requests) = 1
          /\ IF requests[1].err # NoError
             THEN /\ CallOver
                  /\ result = [state |-> "failed", err |-> requests[1].err]
                  /\ calls = {"deleteStack"}
                  /\ out = <<>>
                  /\ batches = <<>>
             ELSE /\ success = DELETE_COMPLETE
                  /\ start = now
                  /\ out[1] = BannerLine(now, "Deleting stack")
                  /\ "describeStackEvents" \in calls => "describeStacks" \in calls
                  /\ pc = "loop" => found = 1

\* an accepted delete is in its loop and a poll has printed an event
C13_Witness ==
    /\ DeleteAnswered
    /\ requests[1].err = NoError
    /\ pc = "loop"
    /\ batches # <<>>

(* ------------------------------- C14 ------------------------------------- *)
\* the current call has run one waitFor invocation at most
OneWaitFor == ~(Len(requests) = 2 /\ requests[1].err = NoError)

\* the lookup of the current waitFor invocation returned no stack or several
LookupNotUnique == found # NoLookup /\ found # 1

\* C14: a waitFor invocation looks the stack id up before its first event fetch
\* and enters the loop only with exactly one stack; when the lookup returns no
\* stack or several, the invocation has slept, fetched and printed nothing and
\* the call fails with the error that names the stack, which is neither a
\* gateway error nor the unexpected-status error; createOrUpdate does not
\* classify it and submits nothing after it.
C14_LookupBeforeLoop ==
    /\ pc = "getStackId" => found = NoLookup /\ batches = <<>> /\ lastResp = <<>> /\ shown = {}
    /\ pc = "loop" => found = 1 /\ "describeStacks" \in calls
    /\ LookupNotUnique =>
          /\ CallOver
          /\ result = [state |-> "failed", err |-> NoStackIdError]
          /\ \E i \in 1..Len(result.err.message) : result.err.message[i] = StackName
          /\ result.err \notin GatewayErrors
          /\ result.err # UnexpectedStatusError(status)
          /\ batches = <<>> /\ lastResp = <<>> /\ shown = {}
          /\ OneWaitFor => calls \cap {"sleep", "describeStackEvents"} = {}
          /\ out[Len(out)].kind = "banner"
          /\ requests[Len(requests)].err = NoError

\* the lookup after an accepted update returned two stacks and the call is over
C14_Witness == LookupNotUnique /\ found = 2 /\ UpdateAccepted /\ Len(requests) = 1 /\ CallOver

(* ------------------------------- C15 ------------------------------------- *)
(* getOutputs(): one describeStacks, then the mapping built from its answer.  *)
(* arg is the answer of describeStacks, drawn by InitOutputs.                  *)
MaxOutputs == 2

OutputKeys == {Undefined, "Role", "Env"}
OutputValues == {Undefined, "", "arn"}
Outputs == [OutputKey : OutputKeys, OutputValue : OutputValues]

\* the lists of at most n outputs
OutputLists(n) == UNION { [1..k -> Outputs] : k \in 0..n }

\* a list that may be undefined: defined tells whether it is there
Absent == [defined |-> FALSE, list |-> <<>>]
Present(l) == [defined |-> TRUE, list |-> l]

\* a stack of the answer: its Outputs are undefined or a list
StackAnswers == { [Outputs |-> os] : os \in {Absent} \cup { Present(l) : l \in OutputLists(MaxOutputs) } }

AnotherStack == [Outputs |-> Present(<< [OutputKey |-> "Role", OutputValue |-> "arn"] >>)]

\* the answers of describeStacks: Stacks undefined, empty, one stack, two stacks
Responses ==
    { [Stacks |-> Absent], [Stacks |-> Present(<<>>)] }
    \cup { [Stacks |-> Present(<<s>>)] : s \in StackAnswers }
    \cup { [Stacks |-> Present(<<s, AnotherStack>>)] : s \in StackAnswers }

\* what JavaScript takes for false among the values of a key or value
Truthy(x) == x # Undefined /\ x # ""

\* mutant: an output with a key is kept whatever its value
KeepsOutput_KeyOnly(o) == Truthy(o.OutputKey)

\* o.OutputKey && o.OutputValue
KeepsOutput(o) == Truthy(o.OutputKey) /\ Truthy(o.OutputValue)

\* response.Stacks[0].Outputs.forEach(...): outputs[o.OutputKey] = o.OutputValue
RECURSIVE ForEachOutput(_, _)
ForEachOutput(os, acc) ==
    IF os = <<>> THEN acc
    ELSE ForEachOutput(Tail(os),
                       IF KeepsOutput(Head(os))
                       THEN (Head(os).OutputKey :> Head(os).OutputValue) @@ acc
                       ELSE acc)

\* response.Stacks && response.Stacks.length === 1 && response.Stacks[0].Outputs
HasOutputs(response) ==
    /\ response.Stacks.defined
    /\ Len(response.Stacks.list) = 1
    /\ response.Stacks.list[1].Outputs.defined

\* the mapping getOutputs returns for response
OutputsOf(response) ==
    IF HasOutputs(response)
    THEN ForEachOutput(response.Stacks.list[1].Outputs.list, NoOutputs)
    ELSE NoOutputs

\* getOutputs(): describeStacks resolves with response
GetOutputs(response) ==
    /\ pc = "idle"
    /\ result.state = "none"
    /\ calls' = calls \cup {"describeStacks"}
    /\ outputs' = OutputsOf(response)
    /\ result' = [state |-> "ok", err |-> NoError]
    /\ UNCHANGED <<pc, gwEvents, stackInput, now, out, requests, lastErr, waitForLocals,
                   found, earlier, gwStack, step, arg>>

\* getOutputs(): describeStacks rejects with err
GetOutputsRejected(err) ==
    /\ pc = "idle"
    /\ result.state = "none"
    /\ calls' = calls \cup {"describeStacks"}
    /\ lastErr' = err
    /\ result' = [state |-> "failed", err |-> err]
    /\ UNCHANGED <<pc, gwEvents, stackInput, now, out, requests, waitForLocals,
                   found, earlier, gwStack, step, arg, outputs>>

InitOutputs ==
    /\ pc = "idle"
    /\ gwEvents = <<>>
    /\ stackInput = NoInput
    /\ now = 0
    /\ inTry = FALSE
    /\ success = EmptyStatus
    /\ start = 0
    /\ shown = {}
    /\ status = EmptyStatus
    /\ out = <<>>
    /\ result = NoResult
    /\ calls = {}
    /\ requests = <<>>
    /\ lastErr = NoError
    /\ batches = <<>>
    /\ lastResp = <<>>
    /\ found = NoLookup
    /\ earlier = {}
    /\ gwStack = NoStack
    /\ step = 0
    /\ arg \in Responses
    /\ outputs = NoOutputs

NextOutputs ==
    \/ GetOutputs(arg)
    \/ \E err \in GatewayErrors : GetOutputsRejected(err)

\* one call of getOutputs for each answer of describeStacks
SpecOutputs == InitOutputs /\ [][NextOutputs]_vars

\* an output of the answer that has both a key and a value
Complete(o) == o.OutputKey \notin {Undefined, ""} /\ o.OutputValue \notin {Undefined, ""}

\* getOutputs has returned for the answer arg
OutputsReturned == "describeStacks" \in calls /\ lastErr = NoError

\* the answer arg holds exactly one stack and that stack carries outputs
OneStackWithOutputs ==
    /\ arg.Stacks.defined
    /\ Len(arg.Stacks.list) = 1
    /\ arg.Stacks.list[1].Outputs.defined

\* the outputs of the one stack of the answer arg
TheOutputs == arg.Stacks.list[1].Outputs.list

\* C15: for an answer with exactly one stack that carries outputs, getOutputs
\* returns the mapping whose keys are the keys of the outputs that have both a
\* key and a value, each mapped to the value of the (last) such output with that
\* key; for an answer with no stack, several stacks or a stack without outputs it
\* returns the empty mapping; in both cases it returns normally.
C15_OutputsMapping ==
    OutputsReturned =>
        /\ result.state = "ok"
        /\ IF OneStackWithOutputs
           THEN LET os == TheOutputs
                    kept == { i \in 1..Len(os) : Complete(os[i]) }
                IN  /\ DOMAIN outputs = { os[i].OutputKey : i \in kept }
                    /\ \A i \in kept :
                          (\A j \in kept : j > i => os[j].OutputKey # os[i].OutputKey)
                              => outputs[os[i].OutputKey] = os[i].OutputValue
           ELSE outputs = NoOutputs

\* getOutputs returned a mapping for a stack whose outputs are one complete
\* output and one without a value
C15_Witness ==
    /\ OutputsReturned
    /\ OneStackWithOutputs
    /\ \E i, j \in 1..Len(TheOutputs) :
          /\ Complete(TheOutputs[i])
          /\ TheOutputs[j].OutputKey = "Env"
          /\ TheOutputs[j].OutputValue = Undefined
    /\ DOMAIN outputs = {"Role"}

(* ------------------------------- C16 ------------------------------------- *)
(* createOrUpdate applied to every params mapping of a bounded size, up to    *)
(* the change requests it submits. arg is the params argument, as              *)
(* Object.entries lists it: pairs of key and value, no key twice.              *)
MaxParams == 2

ParamKeys == {"Env", "Name", "Tag"}
ParamValues == {"test1", Undefined, Null}

ParamMappings ==
    UNION { { m \in [1..k -> ParamKeys \X ParamValues] :
                \A i, j \in 1..k : i # j => m[i][1] # m[j][1] } : k \in 0..MaxParams }

InitParams ==
    /\ pc = "idle"
    /\ gwEvents = <<>>
    /\ stackInput = NoInput
    /\ now = 0
    /\ inTry = FALSE
    /\ success = EmptyStatus
    /\ start = 0
    /\ shown = {}
    /\ status = EmptyStatus
    /\ out = <<>>
    /\ result = NoResult
    /\ calls = {}
    /\ requests = <<>>
    /\ lastErr = NoError
    /\ batches = <<>>
    /\ lastResp = <<>>
    /\ found = NoLookup
    /\ earlier = {}
    /\ gwStack = NoStack
    /\ step = 0
    /\ arg \in ParamMappings
    /\ outputs = NoOutputs

\* one createOrUpdate(template, arg) up to the lookup of the stack id: the update
\* is accepted, or rejected as does-not-exist and the create accepted
NextParams ==
    \/ \E date \in 0..MaxTime :
          result.state = "none" /\ CreateOrUpdate(Template, arg, date) /\ UNCHANGED frame
    \/ UpdateStackAccepted /\ UNCHANGED frame
    \/ UpdateStackRejected(DoesNotExistError) /\ UNCHANGED frame
    \/ CreateStackAccepted /\ UNCHANGED frame
    \/ GetStackId(0) /\ UNCHANGED frame

SpecParams == InitParams /\ [][NextParams]_vars

\* the value of a key is missing
Missing(v) == v \in {Undefined, Null}

\* createOrUpdate has built its change request from arg
RequestBuilt == stackInput # NoInput

\* C16: the change request built from the params mapping holds one entry per key
\* of the mapping, in the mapping's order, none dropped and none twice; an entry
\* is marked UsePreviousValue exactly when the key's value is undefined or null;
\* every change request the call submits, the update and the fallback create,
\* carries this same list.
C16_OneEntryPerKey ==
    RequestBuilt =>
        LET ps == stackInput.Parameters
        IN  /\ Len(ps) = Len(arg)
            /\ \A i \in 1..Len(arg) :
                  /\ ps[i].ParameterKey = arg[i][1]
                  /\ ps[i].ParameterValue = arg[i][2]
                  /\ ps[i].UsePreviousValue <=> Missing(arg[i][2])
                  /\ Cardinality({ j \in 1..Len(ps) : ps[j].ParameterKey = arg[i][1] }) = 1
            /\ \A r \in 1..Len(requests) : requests[r].input.Parameters = ps

\* a mapping with a defined value and a null was submitted as an update and, the
\* update rejected, as a create
C16_Witness ==
    /\ Len(requests) = 2
    /\ requests[2].op = "createStack"
    /\ \E i, j \in 1..Len(arg) : arg[i][2] = "test1" /\ arg[j][2] = Null

(* ------------------------------- C17 ------------------------------------- *)
(* The exit test of the loop applied to each status the gateway can report     *)
(* for the stack: waitFor is called while the gateway lists one event of the   *)
(* stack with that status.                                                     *)
StackStatuses ==
    { <<"CREATE", "IN", "PROGRESS">>, <<"CREATE", "FAILED">>, <<"CREATE", "COMPLETE">>,
      <<"ROLLBACK", "IN", "PROGRESS">>, <<"ROLLBACK", "FAILED">>, <<"ROLLBACK", "COMPLETE">>,
      <<"DELETE", "IN", "PROGRESS">>, <<"DELETE", "FAILED">>, <<"DELETE", "COMPLETE">>,
      <<"UPDATE", "IN", "PROGRESS">>, <<"UPDATE", "COMPLETE", "CLEANUP", "IN", "PROGRESS">>,
      <<"UPDATE", "COMPLETE">>, <<"UPDATE", "FAILED">>,
      <<"UPDATE", "ROLLBACK", "IN", "PROGRESS">>, <<"UPDATE", "ROLLBACK", "FAILED">>,
      <<"UPDATE", "ROLLBACK", "COMPLETE", "CLEANUP", "IN", "PROGRESS">>,
      <<"UPDATE", "ROLLBACK", "COMPLETE">>, <<"REVIEW", "IN", "PROGRESS">> }

InitFinished ==
    /\ pc = "getStackId"
    /\ success \in ExpectedStatuses
    /\ start \in 0..MaxTime
    /\ \E t \in 0..MaxTime, s \in StackStatuses :
          gwEvents = << [EventId |-> 1, Timestamp |-> t,
                         ResourceType |-> StackType, ResourceStatus |-> s] >>
    /\ stackInput = NoInput
    /\ now = 0
    /\ inTry = FALSE
    /\ shown = {}
    /\ status = EmptyStatus
    /\ out = <<>>
    /\ result = NoResult
    /\ calls = {}
    /\ requests = <<>>
    /\ lastErr = NoError
    /\ batches = <<>>
    /\ lastResp = <<>>
    /\ found = NoLookup
    /\ earlier = {}
    /\ gwStack = NoStack
    /\ step = 0
    /\ arg = <<>>
    /\ outputs = NoOutputs

\* the lookup of the stack id, the polls and the exit of the loop
PollStep == Poll(gwEvents) /\ UNCHANGED frame
ExitStep == ExitLoop /\ UNCHANGED frame

NextFinished ==
    \/ GetStackId(1) /\ UNCHANGED frame
    \/ PollStep
    \/ ExitStep

SpecFinished == InitFinished /\ [][NextFinished]_vars

\* the status s ends with the words of v
EndsWith(s, v) == Len(s) >= Len(v) /\ SubSeq(s, Len(s) - Len(v) + 1, Len(s)) = v

EndsTerminal(s) == \E v \in TerminalValues : EndsWith(s, v)

\* C17 as claimed: the loop ends only with a tracked status that is one of the
\* seven terminal values, and with such a status no further poll is made.
C17_ExactlyTheSevenValues ==
    /\ LoopExited => status \in TerminalValues
    /\ pc = "loop" /\ status \in TerminalValues => ~ENABLED PollStep

\* C17 amended: in the loop, a further poll is made exactly when the tracked
\* status does not end with one of the seven terminal values, and the loop is
\* left exactly when it does; so the loop ends only with a status that ends with
\* one of them, UPDATE_ROLLBACK_COMPLETE and UPDATE_ROLLBACK_FAILED included.
C17_EndsWithOneOfSeven ==
    /\ LoopExited => EndsTerminal(status)
    /\ pc = "loop" =>
          /\ (ENABLED PollStep) <=> ~EndsTerminal(status)
          /\ (ENABLED ExitStep) <=> EndsTerminal(status)

\* the loop has ended with the tracked status UPDATE_ROLLBACK_FAILED
C17_Witness == LoopExited /\ status = <<"UPDATE", "ROLLBACK", "FAILED">>

(* ------------------------------- C18 ------------------------------------- *)
\* the event e has been printed by the current waitFor invocation
PrintedNow(e) == \E i \in 1..Len(Printed) : Printed[i] = e

\* C18: every waitFor invocation starts with an empty shown set, whatever earlier
\* invocations printed: an event that an earlier invocation on the same
\* controller printed is printed again by the current one once a poll of the
\* current one returns it with a timestamp not older than the current start.
C18_ShownPerInvocation ==
    /\ pc = "getStackId" => shown = {}
    /\ \A i \in 1..Len(lastResp) :
          lastResp[i].EventId \in earlier /\ lastResp[i].Timestamp >= start
              => PrintedNow(lastResp[i])

\* the only waitFor invocation of the current call has printed an event that an
\* earlier call printed
C18_Witness ==
    /\ Len(requests) = 1
    /\ \E i \in 1..Len(Printed) : Printed[i].EventId \in earlier

(* ------------------------------- C19 ------------------------------------- *)
\* the number of change requests of the current call that the gateway accepted
AcceptedRequests == Cardinality({ r \in 1..Len(requests) : requests[r].err = NoError })

\* C19: within one createOrUpdate a create request is submitted only if the
\* update submission itself was rejected as does-not-exist; after an accepted
\* update no error of the lookup or of an event fetch leads to a create request,
\* so the gateway accepts at most one change request per call.
C19_CreateOnlyAfterRejectedUpdate ==
    /\ pc = "createStack" => UpdateAnswered /\ IsDoesNotExistError(requests[1].err)
    /\ \A r \in 1..Len(requests) :
          requests[r].op = "createStack" => IsDoesNotExistError(requests[1].err)
    /\ AcceptedRequests <= 1

(* ------------------------------- C20 ------------------------------------- *)
\* the status of the last event of the stack itself in es, the empty status if
\* es holds none
RECURSIVE LastStackStatus(_)
LastStackStatus(es) ==
    IF es = <<>> THEN EmptyStatus
    ELSE IF es[Len(es)].ResourceType = StackType THEN es[Len(es)].ResourceStatus
    ELSE LastStackStatus(SubSeq(es, 1, Len(es) - 1))

\* C20: between polls, and when the loop is left, the tracked status is the
\* status of the stack event printed last by this invocation (empty if none was
\* printed): all events of a poll are processed before the exit test, so the
\* loop is left only when the stack event printed last is a finishing one.
C20_StatusOfLastStackEvent ==
    /\ status = LastStackStatus(Printed)
    /\ LoopExited => EndsTerminal(LastStackStatus(Printed))

\* one poll printed a terminal event of the stack and after it a newer event of
\* the stack that is not terminal; the loop goes on with the newer status
C20_Witness ==
    /\ pc = "loop"
    /\ status = UPDATE_IN_PROGRESS
    /\ \E b \in 1..Len(batches) : \E i, j \in 1..Len(batches[b]) :
          /\ i < j
          /\ batches[b][i].ResourceType = StackType
          /\ batches[b][i].ResourceStatus \in TerminalValues
          /\ batches[b][j].ResourceType = StackType
          /\ batches[b][j].ResourceStatus = UPDATE_IN_PROGRESS

====
